---- MODULE Spec2Model ----
(***************************************************************************)
(* Model of the session/room relay engine of Assets/Scripts/server.py      *)
(* (class RelayServer).  Client ids "client_N" and room ids "room_N" are   *)
(* modelled by the number N they are formatted from; 0 stands for a        *)
(* missing / falsy JSON field (data.get(...) returning None).              *)
(*                                                                         *)
(* Threads: one connection worker per client id (handle_tcp_client), the   *)
(* reaper (cleanup_stale_clients) and the operator console (kick_player).  *)
(* A message handler runs its critical sections in one step; remove_client *)
(* is three steps (client map under clients_lock, room map under           *)
(* rooms_lock, unlocked spawn release), the point where other threads can  *)
(* interleave with a teardown.                                             *)
(***************************************************************************)
EXTENDS Integers, Sequences, FiniteSets, TLC

\* ---------------------------------------------------------------- bounds
MaxClients == 2         \* connections accepted during a run
MaxPlayersArg == 2      \* HOST_GAME carries max_players in 0..MaxPlayersArg
NumNames == 2           \* distinct room_name values a HOST_GAME may carry
MaxStarts == 1          \* START_GAME messages processed during a run
MaxTime == 61           \* the clock stops advancing at MaxTime
TimeStep == 61          \* clock advance per Tick
NumAddrs == 1           \* distinct datagram source addresses
ShortStep == 30         \* clock advance per TickShort
MaxStreamLen == 4       \* bytes a peer writes to its connection

\* ------------------------------------------------------- program constants
TIMEOUT == 60           \* cleanup_stale_clients: TIMEOUT
NumSlots == 20          \* len(track_positions)
NoId == 0               \* a missing or falsy id field
NEWLINE == 10           \* b"\n", the message delimiter

ClientIds == 1..MaxClients
RoomIds == 1..MaxClients
Names == 1..NumNames
MaxPlayersArgs == 0..MaxPlayersArg
Messages == {"", "hello"}
Addrs == 1..NumAddrs
UdpTypes == {"GAME_DATA", "POSITION_UPDATE"}
ChunkKinds == {"bad_json", "bad_utf8", "not_object"}
Bytes == {NEWLINE, 123, 125}     \* the delimiter and two other byte values
Streams == UNION {[1..n -> Bytes] : n \in 0..MaxStreamLen}
DataVals == {"None", "gd"}       \* message.get('data'): absent, or a payload

VARIABLES
    clients,               \* self.clients: client id -> [last_heartbeat]
    next_client_id,        \* self.next_client_id
    game_rooms,            \* self.game_rooms: room id -> room record
    room_spawn_positions,  \* self.room_spawn_positions: room id -> (slot -> client)
    clients_lock,          \* self.clients_lock: "free" or the thread holding it
    conn,                  \* per client id: position of its connection worker
    rooms_affected,        \* per worker: remove_client's local rooms_affected
    now,                   \* time.time()
    sent,                  \* messages sent by the last step, in send order
    starts,                \* START_GAME messages processed so far
    op,                    \* the last step: <<kind, client id, room_id field>>
    stream,                \* the bytes a peer writes to its connection
    received,              \* how many of them recv has returned so far
    buffer,                \* handle_tcp_client's local buffer
    dispatched             \* the messages handed to the decode step, in order

vars == <<clients, next_client_id, game_rooms, room_spawn_positions,
          clients_lock, conn, rooms_affected, now, sent, starts, op,
          stream, received, buffer, dispatched>>

\* the state of one connection's receive loop
framing == <<stream, received, buffer, dispatched>>

\* ---------------------------------------------------------------- helpers
Min(S) == CHOOSE x \in S : \A y \in S : x <= y

Range(s) == {s[i] : i \in 1..Len(s)}

\* list.remove(x): drops the first occurrence of x
RECURSIVE ListRemove(_, _)
ListRemove(s, x) ==
    IF s = <<>> THEN <<>>
    ELSE IF Head(s) = x THEN Tail(s)
    ELSE <<Head(s)>> \o ListRemove(Tail(s), x)

\* del d[k]
DictDel(d, k) == [x \in DOMAIN d \ {k} |-> d[x]]

\* d[k] = v
DictSet(d, k, v) == [x \in DOMAIN d \cup {k} |-> IF x = k THEN v ELSE d[x]]

\* handle_tcp_message, "Update last seen time"
Touch(cl, c) ==
    IF c \in DOMAIN cl THEN [cl EXCEPT ![c].last_heartbeat = now] ELSE cl

LocksFree == clients_lock = "free"

\* the worker of client c is in its receive loop and can take the locks
Runnable(c) == conn[c] = "running" /\ LocksFree

\* --------------------------------------------------------- spawn allocator
\* x coordinates of track_positions (y is -2 and z is 0.8 for every entry)
track_positions ==
    <<66, 60, 54, 47, 41, 35, 28, 22, 16, 9,
      3, -3, -9, -15, -22, -28, -34, -41, -47, -54>>

\* mutant: a full table falls back to the last slot, not the first
SpawnIndexWrapLast(occupied) ==
    LET free == {i \in 0..(NumSlots - 1) : i \notin DOMAIN occupied}
    IN IF free = {} THEN NumSlots - 1 ELSE Min(free)

\* assign_spawn_position: the while loop over position_index, then the
\* wrap-around to 0 when every index is occupied
SpawnIndex(occupied) ==
    LET free == {i \in 0..(NumSlots - 1) : i \notin DOMAIN occupied}
        position_index == IF free = {} THEN NumSlots ELSE Min(free)
    IN IF position_index >= NumSlots THEN 0 ELSE position_index

\* the occupied_positions dict of a room (created empty on first use)
Occupied(sp, room_id) ==
    IF room_id \in DOMAIN sp THEN sp[room_id] ELSE <<>>

\* assign_spawn_position(room_id, client_id): the updated table
AssignSpawn(sp, room_id, client_id) ==
    LET occupied == Occupied(sp, room_id)
    IN DictSet(sp, room_id, DictSet(occupied, SpawnIndex(occupied), client_id))

\* mutant: every GAME_STARTED carries the first slot
SpawnPositionFirst(sp, room_id) ==
    [x |-> track_positions[1], y |-> -2, index |-> 0]

\* assign_spawn_position(room_id, client_id): the returned spawn_position
SpawnPosition(sp, room_id) ==
    LET idx == SpawnIndex(Occupied(sp, room_id))
    IN [x |-> track_positions[idx + 1], y |-> -2, index |-> idx]

\* release_spawn_position(room_id, client_id)
ReleaseSpawn(sp, room_id, client_id) ==
    IF room_id \in DOMAIN sp
    THEN [sp EXCEPT ![room_id] =
            [i \in {j \in DOMAIN sp[room_id] : sp[room_id][j] # client_id}
                |-> sp[room_id][i]]]
    ELSE sp

RECURSIVE ReleaseAll(_, _, _)
\* remove_client: "for room_id in rooms_affected: release_spawn_position"
ReleaseAll(sp, rooms, client_id) ==
    IF rooms = {} THEN sp
    ELSE LET r == Min(rooms)
         IN ReleaseAll(ReleaseSpawn(sp, r, client_id), rooms \ {r}, client_id)

\* ------------------------------------------------------------------- Init
Init ==
    /\ clients = <<>>
    /\ next_client_id = 1
    /\ game_rooms = <<>>
    /\ room_spawn_positions = <<>>
    /\ clients_lock = "free"
    /\ conn = [c \in ClientIds |-> "unborn"]
    /\ rooms_affected = [c \in ClientIds |-> {}]
    /\ now = 0
    /\ sent = <<>>
    /\ starts = 0
    /\ op = <<>>
    /\ stream = <<>>
    /\ received = 0
    /\ buffer = <<>>
    /\ dispatched = <<>>

\* ------------------------------------------------------- session registry
\* mutant: register_client without "self.next_client_id += 1"
RegisterClientSameId ==
    /\ op' = <<"REGISTER", next_client_id, NoId>>
    /\ UNCHANGED framing
    /\ LocksFree
    /\ next_client_id <= MaxClients
    /\ clients' = DictSet(clients, next_client_id, [last_heartbeat |-> now])
    /\ conn' = [conn EXCEPT ![next_client_id] = "running"]
    /\ sent' = <<[to |-> next_client_id, type |-> "REGISTERED",
                  client_id |-> next_client_id]>>
    /\ UNCHANGED <<next_client_id, game_rooms, room_spawn_positions,
                   clients_lock, rooms_affected, now, starts>>

\* tcp_listen + register_client: accept a connection, issue the next id
RegisterClient ==
    /\ op' = <<"REGISTER", next_client_id, NoId>>
    /\ UNCHANGED framing
    /\ LocksFree
    /\ next_client_id <= MaxClients
    /\ LET client_id == next_client_id
       IN /\ next_client_id' = next_client_id + 1
          /\ clients' = DictSet(clients, client_id, [last_heartbeat |-> now])
          /\ conn' = [conn EXCEPT ![client_id] = "running"]
          /\ sent' = <<[to |-> client_id, type |-> "REGISTERED",
                        client_id |-> client_id]>>
    /\ UNCHANGED <<game_rooms, room_spawn_positions, clients_lock,
                   rooms_affected, now, starts>>

\* handle_tcp_message, HEARTBEAT
Heartbeat(c) ==
    /\ op' = <<"HEARTBEAT", c, NoId>>
    /\ UNCHANGED framing
    /\ Runnable(c)
    /\ clients' = Touch(clients, c)
    /\ sent' = IF c \in DOMAIN clients
               THEN <<[to |-> c, type |-> "HEARTBEAT_ACK"]>> ELSE <<>>
    /\ UNCHANGED <<next_client_id, game_rooms, room_spawn_positions,
                   clients_lock, conn, rooms_affected, now, starts>>

\* ------------------------------------------------------------ room manager
\* mutant: HOST_GAME without the "already hosts a room" check (as relay.py)
ExistingRoomUnchecked(c) == {}

\* HOST_GAME: "Check if client already hosts a room" (at most one room has a
\* given host, so the loop's first hit is the only one)
ExistingRoom(c) == {r \in DOMAIN game_rooms : game_rooms[r].host_id = c}

\* HOST_GAME: room_id = f"room_{len(self.game_rooms) + 1}"
NewRoomId == Cardinality(DOMAIN game_rooms) + 1

\* handle_tcp_message, HOST_GAME
HostGame(c, room_name, max_players) ==
    /\ op' = <<"HOST_GAME", c, NoId>>
    /\ UNCHANGED framing
    /\ Runnable(c)
    /\ clients' = Touch(clients, c)
    /\ LET room_id == IF ExistingRoom(c) # {}
                      THEN CHOOSE r \in ExistingRoom(c) : TRUE
                      ELSE NewRoomId
       IN /\ game_rooms' =
                IF ExistingRoom(c) # {} THEN game_rooms
                ELSE DictSet(game_rooms, room_id,
                             [host_id |-> c, name |-> room_name,
                              players |-> <<c>>, max_players |-> max_players])
          /\ sent' = IF c \in DOMAIN clients
                     THEN <<[to |-> c, type |-> "GAME_HOSTED", room_id |-> room_id]>>
                     ELSE <<>>
    /\ UNCHANGED <<next_client_id, room_spawn_positions, clients_lock, conn,
                   rooms_affected, now, starts>>

\* mutant: the capacity test off by one
RoomIsFullStrict(room) == Len(room.players) > room.max_players

\* JOIN_GAME: "Check if room is full"
RoomIsFull(room) == Len(room.players) >= room.max_players

\* mutant: JOIN_GAME appends without looking for the client in the list
AddPlayerAgain(room, c) ==
    [room EXCEPT !.players = Append(room.players, c)]

\* JOIN_GAME: "Add client to room"
AddPlayer(room, c) ==
    IF c \notin Range(room.players)
    THEN [room EXCEPT !.players = Append(room.players, c)]
    ELSE room

\* JOIN_GAME: the notifications sent under clients_lock after the append
JoinNotices(c, room_id, host_id) ==
    IF host_id \in DOMAIN clients /\ c \in DOMAIN clients
    THEN <<[to |-> host_id, type |-> "PLAYER_JOINED", client_id |-> c],
           [to |-> c, type |-> "JOINED_GAME", room_id |-> room_id,
            host_id |-> host_id]>>
    ELSE <<>>

\* mutant: every refusal carries the reason "Room is full"
JoinFailedAlwaysFull(c, reason) ==
    IF c \in DOMAIN clients
    THEN <<[to |-> c, type |-> "JOIN_FAILED", reason |-> "Room is full"]>>
    ELSE <<>>

\* JOIN_GAME: the JOIN_FAILED reply, sent if the joiner is still registered
JoinFailed(c, reason) ==
    IF c \in DOMAIN clients
    THEN <<[to |-> c, type |-> "JOIN_FAILED", reason |-> reason]>>
    ELSE <<>>

\* handle_tcp_message, JOIN_GAME
JoinGame(c, room_id) ==
    /\ op' = <<"JOIN_GAME", c, room_id>>
    /\ UNCHANGED framing
    /\ Runnable(c)
    /\ clients' = Touch(clients, c)
    /\ IF room_id \in DOMAIN game_rooms
       THEN IF RoomIsFull(game_rooms[room_id])
            THEN /\ sent' = JoinFailed(c, "Room is full")
                 /\ UNCHANGED game_rooms
            ELSE /\ game_rooms' = [game_rooms EXCEPT
                                     ![room_id] = AddPlayer(game_rooms[room_id], c)]
                 /\ sent' = JoinNotices(c, room_id, game_rooms[room_id].host_id)
       ELSE /\ sent' = JoinFailed(c, "Room not found")
            /\ UNCHANGED game_rooms
    /\ UNCHANGED <<next_client_id, room_spawn_positions, clients_lock, conn,
                   rooms_affected, now, starts>>

\* mutant: the room is removed only when empty
RoomDiesWhenEmpty(room, c) == Len(room.players) = 0

\* mutant: the room is also removed when one member is left
RoomDiesWhenAlone(room, c) == Len(room.players) <= 1 \/ room.host_id = c

\* LEAVE_ROOM: "If room is now empty or host left, remove the room"
RoomDies(room, c) == Len(room.players) = 0 \/ room.host_id = c

\* handle_tcp_message, LEAVE_ROOM
LeaveRoom(c, room_id) ==
    /\ op' = <<"LEAVE_ROOM", c, room_id>>
    /\ UNCHANGED framing
    /\ Runnable(c)
    /\ clients' = Touch(clients, c)
    /\ game_rooms' =
         IF room_id \in DOMAIN game_rooms /\ c \in Range(game_rooms[room_id].players)
         THEN LET room == [game_rooms[room_id] EXCEPT
                             !.players = ListRemove(game_rooms[room_id].players, c)]
              IN IF RoomDies(room, c)
                 THEN DictDel(game_rooms, room_id)
                 ELSE [game_rooms EXCEPT ![room_id] = room]
         ELSE game_rooms
    /\ sent' = <<>>
    /\ UNCHANGED <<next_client_id, room_spawn_positions, clients_lock, conn,
                   rooms_affected, now, starts>>

\* mutant: any member may start the game
IsHostOrMember(room, c) == c \in Range(room.players)

\* START_GAME: "Only the host can start the game"
IsHost(room, c) == room.host_id = c

RECURSIVE StartLoopBackwards(_, _, _, _)
\* mutant: the START_GAME loop walks the member list from its end
StartLoopBackwards(todo, player_ids, room_id, acc) ==
    IF todo = <<>> THEN acc
    ELSE LET player_id == todo[Len(todo)]
             rest == SubSeq(todo, 1, Len(todo) - 1)
         IN IF player_id \in DOMAIN clients
            THEN StartLoopBackwards(rest, player_ids, room_id,
                   [sp |-> AssignSpawn(acc.sp, room_id, player_id),
                    out |-> Append(acc.out,
                              [to |-> player_id, type |-> "GAME_STARTED",
                               player_ids |-> player_ids,
                               spawn_position |-> SpawnPosition(acc.sp, room_id)])])
            ELSE StartLoopBackwards(rest, player_ids, room_id, acc)

RECURSIVE StartLoop(_, _, _, _)
\* START_GAME: the loop over player_ids; yields the updated spawn table and
\* the GAME_STARTED messages in send order
StartLoop(todo, player_ids, room_id, acc) ==
    IF todo = <<>> THEN acc
    ELSE LET player_id == Head(todo)
         IN IF player_id \in DOMAIN clients
            THEN StartLoop(Tail(todo), player_ids, room_id,
                   [sp |-> AssignSpawn(acc.sp, room_id, player_id),
                    out |-> Append(acc.out,
                              [to |-> player_id, type |-> "GAME_STARTED",
                               player_ids |-> player_ids,
                               spawn_position |-> SpawnPosition(acc.sp, room_id)])])
            ELSE StartLoop(Tail(todo), player_ids, room_id, acc)

\* handle_tcp_message, START_GAME
StartGame(c, room_id) ==
    /\ op' = <<"START_GAME", c, room_id>>
    /\ UNCHANGED framing
    /\ Runnable(c)
    /\ clients' = Touch(clients, c)
    /\ IF room_id \in DOMAIN game_rooms /\ IsHost(game_rooms[room_id], c)
       THEN LET player_ids == game_rooms[room_id].players
                done == StartLoop(player_ids, player_ids, room_id,
                                  [sp |-> room_spawn_positions, out |-> <<>>])
            IN /\ room_spawn_positions' = done.sp
               /\ sent' = done.out
       ELSE /\ sent' = <<>>
            /\ UNCHANGED room_spawn_positions
    /\ UNCHANGED <<next_client_id, game_rooms, clients_lock, conn,
                   rooms_affected, now>>

\* ------------------------------------------------------------------ relay
\* mutant: the sender is not skipped
RelayRecipientsAll(room, c) ==
    SelectSeq(room.players, LAMBDA p : p \in DOMAIN clients)

\* RELAY_MESSAGE with room_id: the players the loop sends to, in list order
RelayRecipients(room, c) ==
    SelectSeq(room.players, LAMBDA p : p # c /\ p \in DOMAIN clients)

Relay(to, c, message) ==
    [to |-> to, type |-> "RELAY", from |-> c, message |-> message]

\* handle_tcp_message, RELAY_MESSAGE
RelayMessage(c, room_id, target_id, message) ==
    /\ op' = <<"RELAY_MESSAGE", c, room_id>>
    /\ UNCHANGED framing
    /\ Runnable(c)
    /\ clients' = Touch(clients, c)
    /\ sent' =
         IF message = "" THEN <<>>
         ELSE IF target_id # NoId
         THEN IF target_id \in DOMAIN clients
              THEN <<Relay(target_id, c, message)>> ELSE <<>>
         ELSE IF room_id # NoId /\ room_id \in DOMAIN game_rooms
         THEN LET to == RelayRecipients(game_rooms[room_id], c)
              IN [i \in 1..Len(to) |-> Relay(to[i], c, message)]
         ELSE <<>>
    /\ UNCHANGED <<next_client_id, game_rooms, room_spawn_positions,
                   clients_lock, conn, rooms_affected, now, starts>>

\* ---------------------------------------------------------------- datagrams
\* handle_udp_message: "Update UDP endpoint for this client"
UdpEndpoint(cl, client_id, addr) ==
    IF client_id \in DOMAIN cl
    THEN [cl EXCEPT ![client_id] =
            [last_heartbeat |-> now, udp_ip |-> addr, udp_port |-> addr]]
    ELSE cl

\* get_active_players_in_room(room_id), reading the client map cl
ActivePlayers(cl, room_id) ==
    IF room_id \notin DOMAIN game_rooms THEN <<>>
    ELSE SelectSeq(game_rooms[room_id].players, LAMBDA p : p \in DOMAIN cl)

\* the datagram handed to sendto for player "to"
Forwarded(cl, to, client_id, game_data) ==
    [to |-> to, addr |-> <<cl[to].udp_ip, cl[to].udp_port>>,
     type |-> "GAME_DATA", from |-> client_id, data |-> game_data]

\* mutant: the room loop does not skip the sender
UdpRoomRecipientsAll(cl, room_id, client_id) ==
    SelectSeq(ActivePlayers(cl, room_id),
              LAMBDA p : /\ p \in DOMAIN cl
                         /\ "udp_ip" \in DOMAIN cl[p]
                         /\ "udp_port" \in DOMAIN cl[p])

\* handle_udp_message: the room loop's filter
UdpRoomRecipients(cl, room_id, client_id) ==
    SelectSeq(ActivePlayers(cl, room_id),
              LAMBDA p : /\ p # client_id /\ p \in DOMAIN cl
                         /\ "udp_ip" \in DOMAIN cl[p]
                         /\ "udp_port" \in DOMAIN cl[p])

\* handle_udp_message for a datagram that decodes to a JSON object.  The
\* position kept in player_positions is read by the operator console only
\* and is not part of the model.
UdpMessage(msg_type, client_id, target_id, room_id, game_data, addr) ==
    /\ op' = <<"UDP", client_id, room_id>>
    /\ UNCHANGED framing
    /\ client_id = NoId \/ LocksFree
    /\ LET cl == IF client_id = NoId THEN clients
                 ELSE UdpEndpoint(clients, client_id, addr)
       IN /\ clients' = cl
          /\ sent' =
               IF client_id = NoId THEN <<>>
               ELSE IF target_id # NoId
               THEN IF target_id \in DOMAIN cl /\ "udp_ip" \in DOMAIN cl[target_id]
                    THEN <<Forwarded(cl, target_id, client_id, game_data)>>
                    ELSE <<>>
               ELSE IF room_id # NoId
               THEN LET to == UdpRoomRecipients(cl, room_id, client_id)
                    IN [i \in 1..Len(to) |->
                          Forwarded(cl, to[i], client_id, game_data)]
               ELSE <<>>
    /\ UNCHANGED <<next_client_id, game_rooms, room_spawn_positions,
                   clients_lock, conn, rooms_affected, now, starts>>

\* --------------------------------------------------------------- dispatch
\* handle_tcp_client, one newline-delimited chunk that is not a JSON object.
\* Invalid JSON raises json.JSONDecodeError, caught inside the loop.  Bytes
\* that are not UTF-8 raise UnicodeDecodeError in message.decode, and a JSON
\* value that is not an object raises AttributeError at data.get('type'):
\* neither is caught inside the loop, the worker leaves it and its finally
\* block runs remove_client (here its clients_lock section).
MalformedChunk(c, kind) ==
    /\ op' = <<kind, c, NoId>>
    /\ UNCHANGED framing
    /\ conn[c] = "running"
    /\ kind = "bad_json" \/ LocksFree
    /\ IF kind = "bad_json"
       THEN UNCHANGED <<clients, conn>>
       ELSE /\ clients' = IF c \in DOMAIN clients THEN DictDel(clients, c) ELSE clients
            /\ conn' = [conn EXCEPT ![c] = "rm_rooms"]
    /\ sent' = <<>>
    /\ UNCHANGED <<next_client_id, game_rooms, room_spawn_positions,
                   clients_lock, rooms_affected, now, starts>>

\* handle_tcp_message, a type no branch matches (or no type at all)
UnknownType(c) ==
    /\ op' = <<"UNKNOWN", c, NoId>>
    /\ UNCHANGED framing
    /\ Runnable(c)
    /\ clients' = Touch(clients, c)
    /\ sent' = <<>>
    /\ UNCHANGED <<next_client_id, game_rooms, room_spawn_positions,
                   clients_lock, conn, rooms_affected, now, starts>>

\* handle_tcp_message, JOIN_ROOM: the branch reads the local "room" that it
\* never assigned, UnboundLocalError leaves the worker's loop and the
\* finally block runs remove_client (here its clients_lock section)
JoinRoom(c, room_id) ==
    /\ op' = <<"JOIN_ROOM", c, room_id>>
    /\ UNCHANGED framing
    /\ Runnable(c)
    /\ clients' = IF c \in DOMAIN clients THEN DictDel(clients, c) ELSE clients
    /\ conn' = [conn EXCEPT ![c] = "rm_rooms"]
    /\ sent' = <<>>
    /\ UNCHANGED <<next_client_id, game_rooms, room_spawn_positions,
                   clients_lock, rooms_affected, now, starts>>

\* handle_tcp_message, GET_ROOM_PLAYERS
GetRoomPlayers(c, room_id) ==
    /\ op' = <<"GET_ROOM_PLAYERS", c, room_id>>
    /\ UNCHANGED framing
    /\ Runnable(c)
    /\ clients' = Touch(clients, c)
    /\ sent' = IF room_id \in DOMAIN game_rooms /\ c \in DOMAIN clients
               THEN <<[to |-> c, type |-> "ROOM_PLAYERS",
                       players |-> game_rooms[room_id].players]>>
               ELSE <<>>
    /\ UNCHANGED <<next_client_id, game_rooms, room_spawn_positions,
                   clients_lock, conn, rooms_affected, now, starts>>

\* ------------------------------------------------------------ failed sends
\* mutant: the first failed send ends the notification
DeliverUntilFailure(msgs, broken) ==
    LET bad == {i \in 1..Len(msgs) : msgs[i].to \in broken}
    IN IF bad = {} THEN msgs ELSE SubSeq(msgs, 1, Min(bad) - 1)

\* send_tcp_message, and sendto inside its try block, for each of msgs in
\* turn: a send to a peer of "broken" raises, the exception is caught where
\* it is raised and the caller's loop goes on; what is left was sent
Deliver(msgs, broken) == SelectSeq(msgs, LAMBDA m : m.to \notin broken)

\* START_GAME by the host of an existing room, with failing sends
StartGameFailing(c, room_id, broken) ==
    /\ op' = <<"START_GAME", c, room_id>>
    /\ UNCHANGED framing
    /\ Runnable(c)
    /\ starts < MaxStarts
    /\ starts' = starts + 1
    /\ room_id \in DOMAIN game_rooms /\ IsHost(game_rooms[room_id], c)
    /\ clients' = Touch(clients, c)
    /\ LET player_ids == game_rooms[room_id].players
           done == StartLoop(player_ids, player_ids, room_id,
                             [sp |-> room_spawn_positions, out |-> <<>>])
       IN /\ room_spawn_positions' = done.sp
          /\ sent' = Deliver(done.out, broken)
    /\ UNCHANGED <<next_client_id, game_rooms, clients_lock, conn,
                   rooms_affected, now>>

\* RELAY_MESSAGE into an existing room, with failing sends
RelayMessageFailing(c, room_id, message, broken) ==
    /\ op' = <<"RELAY_MESSAGE", c, room_id>>
    /\ UNCHANGED framing
    /\ Runnable(c)
    /\ message # "" /\ room_id \in DOMAIN game_rooms
    /\ clients' = Touch(clients, c)
    /\ LET to == RelayRecipients(game_rooms[room_id], c)
       IN sent' = Deliver([i \in 1..Len(to) |-> Relay(to[i], c, message)], broken)
    /\ UNCHANGED <<next_client_id, game_rooms, room_spawn_positions,
                   clients_lock, conn, rooms_affected, now, starts>>

\* handle_udp_message for a room datagram, with failing sends
UdpRoomFailing(client_id, room_id, game_data, addr, broken) ==
    /\ op' = <<"UDP", client_id, room_id>>
    /\ UNCHANGED framing
    /\ LocksFree
    /\ room_id \in DOMAIN game_rooms
    /\ LET cl == UdpEndpoint(clients, client_id, addr)
           to == UdpRoomRecipients(cl, room_id, client_id)
       IN /\ clients' = cl
          /\ sent' = Deliver([i \in 1..Len(to) |->
                                Forwarded(cl, to[i], client_id, game_data)], broken)
    /\ UNCHANGED <<next_client_id, game_rooms, room_spawn_positions,
                   clients_lock, conn, rooms_affected, now, starts>>

RECURSIVE InsertionOrder(_)
\* self.clients.items(): the keys in insertion order, which is id order
InsertionOrder(ids) ==
    IF ids = {} THEN <<>>
    ELSE <<Min(ids)>> \o InsertionOrder(ids \ {Min(ids)})

\* broadcast_message, with failing sends
BroadcastMessage(message, broken) ==
    /\ op' = <<"BROADCAST", NoId, NoId>>
    /\ UNCHANGED framing
    /\ LocksFree
    /\ LET to == InsertionOrder(DOMAIN clients)
       IN sent' = Deliver([i \in 1..Len(to) |->
                             [to |-> to[i], type |-> "SERVER_MESSAGE",
                              message |-> message]], broken)
    /\ UNCHANGED <<clients, next_client_id, game_rooms, room_spawn_positions,
                   clients_lock, conn, rooms_affected, now, starts>>

\* mutant: the sender is the identity the message body claims
SenderClaimed(client_id, claimed) ==
    IF claimed = NoId THEN client_id ELSE claimed

\* handle_tcp_client hands handle_tcp_message the id its connection was
\* registered under; no handler reads a client_id field of the body
Sender(client_id, claimed) == client_id

\* RELAY_MESSAGE whose body also carries a client_id field ("claimed")
RelayMessageFrom(c, claimed, room_id, target_id, message) ==
    RelayMessage(Sender(c, claimed), room_id, target_id, message)

\* --------------------------------------------------------------- teardown
\* handle_tcp_client leaves its loop (peer closed, error) and its finally
\* block enters remove_client: the client map part, under clients_lock
Disconnect(c) ==
    /\ op' = <<"DISCONNECT", c, NoId>>
    /\ UNCHANGED framing
    /\ Runnable(c)
    /\ clients' = IF c \in DOMAIN clients THEN DictDel(clients, c) ELSE clients
    /\ conn' = [conn EXCEPT ![c] = "rm_rooms"]
    /\ sent' = <<>>
    /\ UNCHANGED <<next_client_id, game_rooms, room_spawn_positions,
                   clients_lock, rooms_affected, now, starts>>

\* remove_client: rooms whose host is the client
RoomsToRemove(c) == {r \in DOMAIN game_rooms : game_rooms[r].host_id = c}

\* mutant: remove_client leaves the member lists alone
RoomsLeftNone(c) == {}

\* remove_client: rooms the client is dropped from
RoomsLeft(c) ==
    {r \in DOMAIN game_rooms :
        game_rooms[r].host_id # c /\ c \in Range(game_rooms[r].players)}

\* remove_client: the room map part, under rooms_lock
RemoveFromRooms(c) ==
    /\ op' = <<"REMOVE_ROOMS", c, NoId>>
    /\ UNCHANGED framing
    /\ conn[c] = "rm_rooms"
    /\ game_rooms' =
         [r \in DOMAIN game_rooms \ RoomsToRemove(c) |->
            IF r \in RoomsLeft(c)
            THEN [game_rooms[r] EXCEPT !.players = ListRemove(game_rooms[r].players, c)]
            ELSE game_rooms[r]]
    /\ rooms_affected' = [rooms_affected EXCEPT ![c] = RoomsToRemove(c) \cup RoomsLeft(c)]
    /\ conn' = [conn EXCEPT ![c] = "rm_release"]
    /\ sent' = <<>>
    /\ UNCHANGED <<clients, next_client_id, room_spawn_positions, clients_lock,
                   now, starts>>

\* remove_client: "Release any spawn positions this client was using"
ReleaseSpawnPositions(c) ==
    /\ op' = <<"RELEASE", c, NoId>>
    /\ UNCHANGED framing
    /\ conn[c] = "rm_release"
    /\ room_spawn_positions' = ReleaseAll(room_spawn_positions, rooms_affected[c], c)
    /\ rooms_affected' = [rooms_affected EXCEPT ![c] = {}]
    /\ conn' = [conn EXCEPT ![c] = "done"]
    /\ sent' = <<>>
    /\ UNCHANGED <<clients, next_client_id, game_rooms, clients_lock, now, starts>>

\* ----------------------------------------------------------------- reaper
\* mutant: a session is stale as soon as the timeout is reached
IsStaleAtTimeout(c) == now - clients[c].last_heartbeat >= TIMEOUT

\* cleanup_stale_clients: the staleness test
IsStale(c) == now - clients[c].last_heartbeat > TIMEOUT

StaleClients == {c \in DOMAIN clients : IsStale(c)}

\* cleanup_stale_clients, one cycle.  With a stale client the reaper calls
\* remove_client while still inside "with self.clients_lock"; remove_client
\* starts with "with self.clients_lock" and threading.Lock is not
\* reentrant, so the reaper waits on the lock it holds, for ever.
ReaperCycle ==
    /\ op' = <<"REAPER", NoId, NoId>>
    /\ UNCHANGED framing
    /\ LocksFree
    /\ clients_lock' = IF StaleClients # {} THEN "reaper" ELSE "free"
    /\ sent' = <<>>
    /\ UNCHANGED <<clients, next_client_id, game_rooms, room_spawn_positions,
                   conn, rooms_affected, now, starts>>

\* --------------------------------------------------------------- operator
\* kick_player(client_id): for a registered id it sends KICKED and calls
\* remove_client inside "with self.clients_lock", waiting on its own lock
KickPlayer(c) ==
    /\ op' = <<"KICK", c, NoId>>
    /\ UNCHANGED framing
    /\ LocksFree
    /\ IF c \in DOMAIN clients
       THEN /\ sent' = <<[to |-> c, type |-> "KICKED"]>>
            /\ clients_lock' = "admin"
       ELSE /\ sent' = <<>>
            /\ UNCHANGED clients_lock
    /\ UNCHANGED <<clients, next_client_id, game_rooms, room_spawn_positions,
                   conn, rooms_affected, now, starts>>

\* ------------------------------------------------------------------ locks
\* the locks the thread of a step of the given kind holds when it calls
\* send_tcp_message or sendto (the "with" blocks that enclose the call; for
\* RELAY_MESSAGE the lock common to its two sending paths)
LocksHeldAtSend(kind) ==
    CASE kind \in {"REGISTER", "HEARTBEAT", "RELAY_MESSAGE", "GET_ROOM_PLAYERS",
                   "KICK", "UDP"} -> {"clients_lock"}
      [] kind \in {"HOST_GAME", "JOIN_GAME", "START_GAME"}
            -> {"rooms_lock", "clients_lock"}
      [] OTHER -> {}

\* the locks the thread of a step of the given kind holds when it reads or
\* writes game_rooms or room_spawn_positions
RoomStateLocks(kind) ==
    CASE kind \in {"HOST_GAME", "JOIN_GAME", "LEAVE_ROOM", "RELAY_MESSAGE",
                   "REMOVE_ROOMS", "UDP"} -> {"rooms_lock"}
      [] kind = "START_GAME" -> {"rooms_lock", "clients_lock"}
      [] kind \in {"GET_ROOM_PLAYERS", "RELEASE"} -> {}
      [] OTHER -> {}

\* ------------------------------------------------------------------ clock
Tick ==
    /\ now < MaxTime
    /\ now' = now + TimeStep
    /\ UNCHANGED <<clients, next_client_id, game_rooms, room_spawn_positions,
                   clients_lock, conn, rooms_affected, sent, starts, op>>
    /\ UNCHANGED framing

\* the clock in steps shorter than the timeout
TickShort ==
    /\ now < MaxTime
    /\ now' = now + ShortStep
    /\ UNCHANGED <<clients, next_client_id, game_rooms, room_spawn_positions,
                   clients_lock, conn, rooms_affected, sent, starts, op>>
    /\ UNCHANGED framing

\* ------------------------------------------------------------------- Next
StartGameStep ==
    \E c \in ClientIds, r \in RoomIds :
        starts < MaxStarts /\ StartGame(c, r) /\ starts' = starts + 1

\* Every thread of the server; the clock stays below the heartbeat timeout.
Next ==
    \/ RegisterClient
    \/ \E c \in ClientIds : Heartbeat(c)
    \/ \E c \in ClientIds, n \in Names, m \in MaxPlayersArgs : HostGame(c, n, m)
    \/ \E c \in ClientIds, r \in RoomIds : JoinGame(c, r)
    \/ \E c \in ClientIds, r \in RoomIds : LeaveRoom(c, r)
    \/ StartGameStep
    \/ \E c \in ClientIds, r \in RoomIds \cup {NoId}, t \in ClientIds \cup {NoId},
          msg \in Messages : RelayMessage(c, r, t, msg)
    \/ \E c \in ClientIds : Disconnect(c)
    \/ \E c \in ClientIds : RemoveFromRooms(c)
    \/ \E c \in ClientIds : ReleaseSpawnPositions(c)
    \/ ReaperCycle
    \/ \E c \in ClientIds : KickPlayer(c)

Spec == Init /\ [][Next]_vars

\* The registry, the rooms and the reaper with the clock running.
NextTimed ==
    \/ RegisterClient
    \/ \E c \in ClientIds : Heartbeat(c)
    \/ \E c \in ClientIds, m \in MaxPlayersArgs : HostGame(c, 1, m)
    \/ \E c \in ClientIds, r \in RoomIds : JoinGame(c, r)
    \/ \E c \in ClientIds : Disconnect(c)
    \/ \E c \in ClientIds : RemoveFromRooms(c)
    \/ \E c \in ClientIds : ReleaseSpawnPositions(c)
    \/ ReaperCycle
    \/ Tick

\* Every thread is a daemon thread that the interpreter keeps scheduling:
\* the reaper loop, each worker's teardown and the clock are weakly fair.
LiveSpec ==
    /\ Init
    /\ [][NextTimed]_vars
    /\ WF_vars(ReaperCycle)
    /\ WF_vars(Tick)
    /\ \A c \in ClientIds : WF_vars(Disconnect(c))
    /\ \A c \in ClientIds : WF_vars(RemoveFromRooms(c))
    /\ \A c \in ClientIds : WF_vars(ReleaseSpawnPositions(c))

\* One room, hosted by client_1, and the spawn allocator, with no cap on
\* START_GAME.
NextSpawn ==
    \/ RegisterClient
    \/ HostGame(1, 1, MaxPlayersArg)
    \/ \E c \in ClientIds, r \in RoomIds : JoinGame(c, r)
    \/ \E c \in ClientIds, r \in RoomIds : StartGame(c, r) /\ UNCHANGED starts
    \/ \E c \in ClientIds : Disconnect(c)
    \/ \E c \in ClientIds : RemoveFromRooms(c)
    \/ \E c \in ClientIds : ReleaseSpawnPositions(c)

SpawnSpec == Init /\ [][NextSpawn]_vars

\* The datagram worker with the registry and the rooms.
NextUdp ==
    \/ RegisterClient
    \/ \E c \in ClientIds : HostGame(c, 1, MaxPlayersArg)
    \/ \E c \in ClientIds, r \in RoomIds : JoinGame(c, r)
    \/ \E c \in ClientIds : Disconnect(c)
    \/ \E c \in ClientIds : RemoveFromRooms(c)
    \/ \E c \in ClientIds : ReleaseSpawnPositions(c)
    \/ \E t \in UdpTypes, c \in ClientIds \cup {NoId}, tg \in ClientIds \cup {NoId},
          r \in RoomIds \cup {NoId}, d \in DataVals, a \in Addrs :
            UdpMessage(t, c, tg, r, d, a)

UdpSpec == Init /\ [][NextUdp]_vars

\* The connection workers with every way a worker's loop can end.
NextDispatch ==
    \/ RegisterClient
    \/ \E c \in ClientIds : HostGame(c, 1, MaxPlayersArg)
    \/ \E c \in ClientIds, r \in RoomIds : JoinGame(c, r)
    \/ \E c \in ClientIds, k \in ChunkKinds : MalformedChunk(c, k)
    \/ \E c \in ClientIds : UnknownType(c)
    \/ \E c \in ClientIds, r \in RoomIds : JoinRoom(c, r)
    \/ \E c \in ClientIds, r \in RoomIds : GetRoomPlayers(c, r)
    \/ \E c \in ClientIds : Disconnect(c)
    \/ \E c \in ClientIds : RemoveFromRooms(c)
    \/ \E c \in ClientIds : ReleaseSpawnPositions(c)

\* A worker that has entered remove_client keeps being scheduled.
DispatchSpec ==
    /\ Init
    /\ [][NextDispatch]_vars
    /\ \A c \in ClientIds : WF_vars(RemoveFromRooms(c))
    /\ \A c \in ClientIds : WF_vars(ReleaseSpawnPositions(c))

\* The reaper against clients that keep, or stop, sending heartbeats.
NextReaper ==
    \/ RegisterClient
    \/ \E c \in ClientIds : Heartbeat(c)
    \/ \E c \in ClientIds : Disconnect(c)
    \/ \E c \in ClientIds : RemoveFromRooms(c)
    \/ \E c \in ClientIds : ReleaseSpawnPositions(c)
    \/ ReaperCycle
    \/ TickShort

ReaperSpec == Init /\ [][NextReaper]_vars

\* The notifications of the server when sends fail and bodies lie.
NextSends ==
    \/ RegisterClient
    \/ \E c \in ClientIds : HostGame(c, 1, MaxPlayersArg)
    \/ \E c \in ClientIds, r \in RoomIds : JoinGame(c, r)
    \/ \E c \in ClientIds : Disconnect(c)
    \/ \E c \in ClientIds : RemoveFromRooms(c)
    \/ \E c \in ClientIds : ReleaseSpawnPositions(c)
    \/ \E c \in ClientIds, r \in RoomIds, b \in SUBSET ClientIds :
          StartGameFailing(c, r, b)
    \/ \E c \in ClientIds, r \in RoomIds, b \in SUBSET ClientIds :
          RelayMessageFailing(c, r, "hello", b)
    \/ \E c \in ClientIds, r \in RoomIds, a \in Addrs, b \in SUBSET ClientIds :
          UdpRoomFailing(c, r, "gd", a, b)
    \/ \E b \in SUBSET ClientIds : BroadcastMessage("hello", b)
    \/ \E c \in ClientIds, k \in ClientIds \cup {NoId}, r \in RoomIds \cup {NoId},
          t \in ClientIds \cup {NoId} : RelayMessageFrom(c, k, r, t, "hello")

SendSpec == Init /\ [][NextSends]_vars

\* ------------------------------------------------------- message framing
\* handle_tcp_client's receive loop for one connection.  "dispatched" logs,
\* in order, the messages that reach the body of "if message:", i.e. that
\* are handed to json.loads and handle_tcp_message; what a handler then
\* does is the subject of the actions above.

\* mutant: buffer.rsplit(b"\n", 1), cutting at the last delimiter
SplitLast(buf) ==
    LET i == CHOOSE k \in 1..Len(buf) :
                 buf[k] = NEWLINE /\ \A j \in (k+1)..Len(buf) : buf[j] # NEWLINE
    IN  <<SubSeq(buf, 1, i - 1), SubSeq(buf, i + 1, Len(buf))>>

\* buffer.split(b"\n", 1) of a buffer that holds a delimiter
Split(buf) ==
    LET i == Min({k \in 1..Len(buf) : buf[k] = NEWLINE})
    IN  <<SubSeq(buf, 1, i - 1), SubSeq(buf, i + 1, Len(buf))>>

\* while b"\n" in buffer: message, buffer = buffer.split(b"\n", 1);
\* if message: <dispatch message>
RECURSIVE ProcessBuffer(_, _)
ProcessBuffer(buf, out) ==
    IF NEWLINE \notin Range(buf)
    THEN [buffer |-> buf, dispatched |-> out]
    ELSE LET parts == Split(buf)
         IN  ProcessBuffer(parts[2],
                           IF parts[1] # <<>> THEN Append(out, parts[1]) ELSE out)

\* chunk = client_socket.recv(4096) returning the next n bytes of the
\* stream; buffer += chunk; then the extraction loop
Recv(n) ==
    /\ received + n <= Len(stream)
    /\ LET chunk == SubSeq(stream, received + 1, received + n)
           r == ProcessBuffer(buffer \o chunk, dispatched)
       IN  /\ buffer' = r.buffer
           /\ dispatched' = r.dispatched
    /\ received' = received + n
    /\ UNCHANGED <<stream, clients, next_client_id, game_rooms,
                   room_spawn_positions, clients_lock, conn, rooms_affected,
                   now, sent, starts, op>>

\* a connection before its first recv, for every stream its peer may write
InitFraming ==
    /\ clients = <<>>
    /\ next_client_id = 1
    /\ game_rooms = <<>>
    /\ room_spawn_positions = <<>>
    /\ clients_lock = "free"
    /\ conn = [c \in ClientIds |-> "unborn"]
    /\ rooms_affected = [c \in ClientIds |-> {}]
    /\ now = 0
    /\ sent = <<>>
    /\ starts = 0
    /\ op = <<>>
    /\ stream \in Streams
    /\ received = 0
    /\ buffer = <<>>
    /\ dispatched = <<>>

\* The receive loop under every way the stream can be cut into chunks.
NextFraming == \E n \in 1..MaxStreamLen : Recv(n)

FramingSpec == InitFraming /\ [][NextFraming]_vars

\* ================================================================ claims
Registered(c) == c \in DOMAIN clients

Hosts(c) == \E r \in DOMAIN game_rooms : game_rooms[r].host_id = c

Members(r) == Range(game_rooms[r].players)

\* C1: in every reachable state every room's member count is at most the
\* room's max_players, whatever max_players the creating HOST_GAME carried.
C1_MemberCountWithinMax ==
    \A r \in DOMAIN game_rooms :
        Len(game_rooms[r].players) <= game_rooms[r].max_players

\* C2: a JOIN_GAME for an existing room whose member count has reached
\* max_players sends the joiner JOIN_FAILED "Room is full" and nothing else,
\* and leaves the room map (so that room's member list) unchanged.
C2_FullRoomJoinRejected ==
    [][\A c \in ClientIds, r \in RoomIds :
          (/\ JoinGame(c, r)
           /\ r \in DOMAIN game_rooms
           /\ Len(game_rooms[r].players) >= game_rooms[r].max_players)
          => /\ sent' = <<[to |-> c, type |-> "JOIN_FAILED",
                           reason |-> "Room is full"]>>
             /\ game_rooms' = game_rooms]_vars

\* a join was just refused on a room that exists and is at capacity
C2_Witness ==
    /\ op # <<>> /\ op[1] = "JOIN_GAME"
    /\ op[3] \in DOMAIN game_rooms
    /\ Len(game_rooms[op[3]].players) = game_rooms[op[3]].max_players
    /\ game_rooms[op[3]].max_players > 0
    /\ sent = <<[to |-> op[2], type |-> "JOIN_FAILED", reason |-> "Room is full"]>>

\* C3: a HOST_GAME from a registered client that hosts no room leaves one
\* more room than before; the new room has the client as host and as its
\* only member, and GAME_HOSTED carries the new room's id.
C3_HostCreatesOneMoreRoom ==
    [][\A c \in ClientIds, n \in Names, m \in MaxPlayersArgs :
          (HostGame(c, n, m) /\ Registered(c) /\ ~Hosts(c))
          => /\ Cardinality(DOMAIN game_rooms') = Cardinality(DOMAIN game_rooms) + 1
             /\ Len(sent') = 1 /\ sent'[1].to = c /\ sent'[1].type = "GAME_HOSTED"
             /\ sent'[1].room_id \in DOMAIN game_rooms' \ DOMAIN game_rooms
             /\ game_rooms'[sent'[1].room_id].host_id = c
             /\ game_rooms'[sent'[1].room_id].players = <<c>>]_vars

\* C4: a HOST_GAME from a client that already hosts a room answers
\* GAME_HOSTED with the id of that room and leaves the room map unchanged,
\* whatever room_name and max_players the request carries.
C4_RehostIdempotent ==
    [][\A c \in ClientIds, n \in Names, m \in MaxPlayersArgs :
          (HostGame(c, n, m) /\ Hosts(c))
          => /\ game_rooms' = game_rooms
             /\ Len(sent') = 1 /\ sent'[1].to = c /\ sent'[1].type = "GAME_HOSTED"
             /\ sent'[1].room_id \in DOMAIN game_rooms
             /\ game_rooms[sent'[1].room_id].host_id = c]_vars

\* the host of a room that already has a second member was just answered
\* GAME_HOSTED for that room: the request was a re-host
C4_Witness ==
    /\ op # <<>> /\ op[1] = "HOST_GAME"
    /\ Len(sent) = 1 /\ sent[1].type = "GAME_HOSTED"
    /\ sent[1].room_id \in DOMAIN game_rooms
    /\ game_rooms[sent[1].room_id].host_id = op[2]
    /\ Len(game_rooms[sent[1].room_id].players) = 2

\* C5: when the host of a room departs, by LEAVE_ROOM for that room or by
\* remove_client (connection closed, kick, eviction), the room no longer
\* exists once the operation has completed, whatever other members it had.
C5_HostDepartureDeletesRoom ==
    [][/\ \A c \in ClientIds, r \in RoomIds :
            (LeaveRoom(c, r) /\ r \in DOMAIN game_rooms /\ game_rooms[r].host_id = c)
            => r \notin DOMAIN game_rooms'
       /\ \A c \in ClientIds :
            RemoveFromRooms(c)
            => \A r \in DOMAIN game_rooms :
                  game_rooms[r].host_id = c => r \notin DOMAIN game_rooms'
      ]_vars

\* remove_client has just taken the departed host's room, which had another
\* member, out of the room map
C5_Witness ==
    \E c \in ClientIds :
        /\ op = <<"REMOVE_ROOMS", c, NoId>>
        /\ rooms_affected[c] # {}
        /\ \A r \in rooms_affected[c] : r \notin DOMAIN game_rooms
        /\ \E d \in DOMAIN clients : d # c /\ conn[d] = "running"

\* C6: a LEAVE_ROOM or a disconnect by a member that is not the room's host
\* never deletes the room: it is still there with the same host, name and
\* max_players, and its member list is the old one without the departed
\* client, order preserved.
C6_NonHostDepartureKeepsRoom ==
    [][\A c \in ClientIds, r \in RoomIds :
          (/\ LeaveRoom(c, r) \/ RemoveFromRooms(c)
           /\ r \in DOMAIN game_rooms
           /\ game_rooms[r].host_id # c
           /\ c \in Members(r))
          => /\ r \in DOMAIN game_rooms'
             /\ game_rooms'[r].host_id = game_rooms[r].host_id
             /\ game_rooms'[r].name = game_rooms[r].name
             /\ game_rooms'[r].max_players = game_rooms[r].max_players
             /\ game_rooms'[r].players =
                  SelectSeq(game_rooms[r].players, LAMBDA p : p # c)]_vars

\* a non-host member has just left a room, which is still there with its host
C6_Witness ==
    \E r \in DOMAIN game_rooms :
        /\ op # <<>> /\ op[1] = "LEAVE_ROOM" /\ op[3] = r
        /\ game_rooms[r].host_id # op[2]
        /\ op[2] \notin Members(r)
        /\ game_rooms[r].players = <<game_rooms[r].host_id>>
        /\ game_rooms[r].max_players = 2

\* C7: a START_GAME for a room from a client that is not its host sends no
\* GAME_STARTED (nothing at all) and changes neither the room map nor any
\* spawn assignment.
C7_NonHostStartIgnored ==
    [][\A c \in ClientIds, r \in RoomIds :
          (/\ StartGame(c, r)
           /\ r \in DOMAIN game_rooms
           /\ game_rooms[r].host_id # c)
          => /\ sent' = <<>>
             /\ game_rooms' = game_rooms
             /\ room_spawn_positions' = room_spawn_positions]_vars

\* a member that is not the host has just sent START_GAME for its room
C7_Witness ==
    /\ op # <<>> /\ op[1] = "START_GAME"
    /\ op[3] \in DOMAIN game_rooms
    /\ game_rooms[op[3]].host_id # op[2]
    /\ op[2] \in Members(op[3])
    /\ sent = <<>>

\* the clients a room-wide RELAY_MESSAGE from c must reach
RoomAudience(c, r) ==
    IF r \in DOMAIN game_rooms
    THEN {p \in Members(r) : Registered(p) /\ p # c}
    ELSE {}

\* C8 as stated: for every RELAY_MESSAGE carrying a room_id and no
\* target_id, the clients that receive the RELAY are exactly the room's
\* registered members other than the sender.
C8_RoomRelayAnyMessage ==
    [][\A c \in ClientIds, r \in RoomIds, msg \in Messages :
          RelayMessage(c, r, NoId, msg)
          => {sent'[i].to : i \in 1..Len(sent')} = RoomAudience(c, r)]_vars

\* C8 as amended: for every RELAY_MESSAGE carrying a room_id, no target_id
\* and a non-empty message, each registered member of the room other than
\* the sender receives exactly one RELAY, from the sender, with the message,
\* and nobody else receives anything.
C8_RoomRelayRecipients ==
    [][\A c \in ClientIds, r \in RoomIds, msg \in Messages :
          (RelayMessage(c, r, NoId, msg) /\ msg # "")
          => /\ {sent'[i].to : i \in 1..Len(sent')} = RoomAudience(c, r)
             /\ Len(sent') = Cardinality(RoomAudience(c, r))
             /\ \A i \in 1..Len(sent') :
                   /\ sent'[i].type = "RELAY"
                   /\ sent'[i].from = c
                   /\ sent'[i].message = msg
                   /\ sent'[i].to # c]_vars

\* a member has just relayed into its room and the other member got it
C8_Witness ==
    /\ op # <<>> /\ op[1] = "RELAY_MESSAGE"
    /\ op[3] \in DOMAIN game_rooms
    /\ Len(game_rooms[op[3]].players) = 2
    /\ op[2] \in Members(op[3])
    /\ Len(sent) = 1 /\ sent[1].type = "RELAY" /\ sent[1].from = op[2]
    /\ sent[1].to \in Members(op[3]) \ {op[2]}

\* a session is gone from the client map, from every room and as a host
Evicted(c) ==
    /\ ~Registered(c)
    /\ \A r \in DOMAIN game_rooms :
          game_rooms[r].host_id # c /\ c \notin Members(r)

\* C9: a registered client whose time since last-seen exceeds the timeout
\* is eventually evicted (unless it is heard from again first): removed
\* from the client map, from every room, and its hosted room deleted.
C9_StaleClientEvicted ==
    \A c \in ClientIds :
        (Registered(c) /\ IsStale(c))
            ~> (Evicted(c) \/ (Registered(c) /\ ~IsStale(c)))

\* C10: no two GAME_STARTED messages of one START_GAME, for a room of at
\* most 20 members, hand out the same slot index.
C10_SpawnInjective ==
    (op # <<>> /\ op[1] = "START_GAME")
    => \A i, j \in 1..Len(sent) :
          (i # j /\ Len(sent[i].player_ids) <= NumSlots)
          => sent[i].spawn_position.index # sent[j].spawn_position.index

\* the smallest index of 0..19 that is free in a room's table, 0 when none is
FirstFreeOrZero(occ) ==
    IF \E i \in 0..19 : i \notin DOMAIN occ
    THEN CHOOSE i \in 0..19 :
            i \notin DOMAIN occ /\ \A j \in 0..(i - 1) : j \in DOMAIN occ
    ELSE 0

RECURSIVE AllocatedInTurn(_, _, _)
\* the GAME_STARTED messages msgs carry, one after the other, the slot the
\* claim describes for the table occ, and final is the table they leave
AllocatedInTurn(occ, msgs, final) ==
    IF msgs = <<>> THEN occ = final
    ELSE LET idx == FirstFreeOrZero(occ)
         IN /\ Head(msgs).spawn_position.index = idx
            /\ AllocatedInTurn(DictSet(occ, idx, Head(msgs).to), Tail(msgs), final)

\* C11: each assign_spawn_position(room, client) of a START_GAME returns the
\* smallest index of 0..19 not occupied in that room and records the client
\* as its occupant; with all 20 occupied it returns 0 and the client
\* replaces slot 0's occupant.
C11_SmallestFreeSlotOrZero ==
    [][\A c \in ClientIds, r \in RoomIds :
          (/\ StartGame(c, r)
           /\ r \in DOMAIN game_rooms
           /\ game_rooms[r].host_id = c
           /\ sent' # <<>>)
          => AllocatedInTurn(IF r \in DOMAIN room_spawn_positions
                             THEN room_spawn_positions[r] ELSE <<>>,
                             sent', room_spawn_positions'[r])]_vars

\* a START_GAME on a room whose 20 slots were all taken has just put its
\* second member on slot 0, over the host that had been put there
C11_Witness ==
    /\ op # <<>> /\ op[1] = "START_GAME"
    /\ op[3] \in DOMAIN room_spawn_positions
    /\ DOMAIN room_spawn_positions[op[3]] = 0..19
    /\ Len(sent) = 2
    /\ sent[1].spawn_position.index = 0 /\ sent[2].spawn_position.index = 0
    /\ sent[2].to # sent[1].to
    /\ room_spawn_positions[op[3]][0] = sent[2].to

\* C12: room ids are never reused: the id that GAME_HOSTED carries for a
\* room created by HOST_GAME is not the id of a room that exists at that
\* moment (nor of one that existed earlier), so an id a client holds never
\* comes to name another room.
C12_RoomIdNeverReused ==
    [][\A c \in ClientIds, n \in Names, m \in MaxPlayersArgs :
          (HostGame(c, n, m) /\ Registered(c) /\ ~Hosts(c))
          => \A i \in 1..Len(sent') :
                sent'[i].type = "GAME_HOSTED"
                => sent'[i].room_id \notin DOMAIN game_rooms]_vars

\* the ids register_client has returned so far (each started a worker)
Issued == {d \in ClientIds : conn[d] # "unborn"}

\* C13: the id a register_client call returns was never returned before,
\* whatever was removed in between, and is greater than every id returned
\* before it.
C13_ClientIdsUnique ==
    [][RegisterClient
          => /\ Len(sent') = 1 /\ sent'[1].type = "REGISTERED"
             /\ sent'[1].client_id \notin Issued
             /\ sent'[1].client_id \notin DOMAIN clients
             /\ \A d \in Issued : d < sent'[1].client_id
             /\ Issued' = Issued \cup {sent'[1].client_id}]_vars

\* a client has just been registered after an earlier one was removed
C13_Witness ==
    /\ op # <<>> /\ op[1] = "REGISTER"
    /\ sent[1].client_id = 2
    /\ conn[1] = "done" /\ 1 \notin DOMAIN clients
    /\ DOMAIN clients = {2}

\* C14: a JOIN_GAME naming a room id that does not exist sends the joiner
\* JOIN_FAILED "Room not found" and nothing else, and changes no room, no
\* member list and no spawn assignment.
C14_UnknownRoomJoinRejected ==
    [][\A c \in ClientIds, r \in RoomIds :
          (JoinGame(c, r) /\ Registered(c) /\ r \notin DOMAIN game_rooms)
          => /\ sent' = <<[to |-> c, type |-> "JOIN_FAILED",
                           reason |-> "Room not found"]>>
             /\ game_rooms' = game_rooms
             /\ room_spawn_positions' = room_spawn_positions]_vars

\* a join was just refused for a room id that names no room, while another
\* room exists
C14_Witness ==
    /\ op # <<>> /\ op[1] = "JOIN_GAME"
    /\ op[3] \notin DOMAIN game_rooms
    /\ DOMAIN game_rooms # {}
    /\ sent = <<[to |-> op[2], type |-> "JOIN_FAILED", reason |-> "Room not found"]>>

\* the positions in msgs of the messages of the given type sent to p
SentTo(msgs, p, type) ==
    {i \in 1..Len(msgs) : msgs[i].to = p /\ msgs[i].type = type}

\* C15: on a successful JOIN_GAME (one answered JOINED_GAME), every client
\* that was already a member of the room, other than the joiner, receives
\* exactly one PLAYER_JOINED naming the joiner, and the joiner receives no
\* PLAYER_JOINED.
C15_MembersToldOfJoin ==
    [][\A c \in ClientIds, r \in RoomIds :
          (/\ JoinGame(c, r)
           /\ r \in DOMAIN game_rooms
           /\ SentTo(sent', c, "JOINED_GAME") # {})
          => /\ \A p \in Members(r) \ {c} :
                   /\ Cardinality(SentTo(sent', p, "PLAYER_JOINED")) = 1
                   /\ \A i \in SentTo(sent', p, "PLAYER_JOINED") :
                         sent'[i].client_id = c
             /\ SentTo(sent', c, "PLAYER_JOINED") = {}]_vars

\* C16: every JOIN_GAME processed for a registered client is answered with
\* exactly one JOINED_GAME or JOIN_FAILED, and a client that the step adds
\* to a room's member list is sent JOINED_GAME, also while the room's host
\* is being torn down.
C16_JoinAlwaysAnswered ==
    [][\A c \in ClientIds, r \in RoomIds :
          (JoinGame(c, r) /\ Registered(c))
          => /\ Cardinality(SentTo(sent', c, "JOINED_GAME")
                            \cup SentTo(sent', c, "JOIN_FAILED")) = 1
             /\ (r \in DOMAIN game_rooms /\ c \notin Members(r)
                    /\ c \in Range(game_rooms'[r].players))
                 => SentTo(sent', c, "JOINED_GAME") # {}]_vars

\* C17: when a client stops being a member of a room that had other
\* members, by LEAVE_ROOM or by remove_client, every other registered
\* member of that room is sent a PLAYER_DISCONNECTED naming it.
C17_DepartureAnnounced ==
    [][\A c \in ClientIds, r \in RoomIds :
          (/\ LeaveRoom(c, r) \/ RemoveFromRooms(c)
           /\ r \in DOMAIN game_rooms
           /\ c \in Members(r))
          => \A p \in Members(r) \ {c} :
                Registered(p)
                => \E i \in SentTo(sent', p, "PLAYER_DISCONNECTED") :
                      sent'[i].player_id = c]_vars

\* C18: a START_GAME by the room's host sends each registered member of the
\* room exactly one GAME_STARTED and nobody else any; each carries the
\* room's full member list and a slot of 0..19 that this start assigned to
\* its receiver in that room (recorded for the receiver in the room's table,
\* unless a later member of the same start was put on the same slot).
C18_StartReachesEveryMember ==
    [][\A c \in ClientIds, r \in RoomIds :
          (/\ StartGame(c, r)
           /\ r \in DOMAIN game_rooms
           /\ game_rooms[r].host_id = c)
          => /\ \A p \in ClientIds :
                   Cardinality(SentTo(sent', p, "GAME_STARTED")) =
                      IF p \in Members(r) /\ Registered(p) THEN 1 ELSE 0
             /\ \A i \in 1..Len(sent') :
                   /\ sent'[i].type = "GAME_STARTED"
                   /\ sent'[i].player_ids = game_rooms[r].players
                   /\ sent'[i].spawn_position.index \in 0..19
                   /\ \/ room_spawn_positions'[r][sent'[i].spawn_position.index]
                            = sent'[i].to
                      \/ \E j \in (i + 1)..Len(sent') :
                            sent'[j].spawn_position.index
                               = sent'[i].spawn_position.index]_vars

\* the host has just started a two-member room and each member holds the
\* slot its GAME_STARTED carries
C18_Witness ==
    /\ op # <<>> /\ op[1] = "START_GAME"
    /\ op[3] \in DOMAIN game_rooms
    /\ game_rooms[op[3]].players = <<1, 2>>
    /\ Len(sent) = 2 /\ sent[1].to = 1 /\ sent[2].to = 2
    /\ sent[1].player_ids = <<1, 2>> /\ sent[2].player_ids = <<1, 2>>
    /\ sent[1].spawn_position.index # sent[2].spawn_position.index
    /\ \A i \in 1..2 :
          room_spawn_positions[op[3]][sent[i].spawn_position.index] = sent[i].to

\* C19: a START_GAME by the host marks the room as started, and a
\* JOINED_GAME tells the joiner the room's started flag (game_started).
C19_StartedFlagKept ==
    [][\A c \in ClientIds, r \in RoomIds :
          /\ (StartGame(c, r) /\ r \in DOMAIN game_rooms /\ game_rooms[r].host_id = c)
             => /\ "game_started" \in DOMAIN game_rooms'[r]
                /\ game_rooms'[r].game_started
          /\ JoinGame(c, r)
             => \A i \in SentTo(sent', c, "JOINED_GAME") :
                   "game_started" \in DOMAIN sent'[i]]_vars

\* C20: room_spawn_positions holds slot entries only for rooms that exist.
C20_SpawnTableDiesWithRoom ==
    \A r \in DOMAIN room_spawn_positions :
        DOMAIN room_spawn_positions[r] # {} => r \in DOMAIN game_rooms

\* the slots of room r that name client c as occupant, in table sp
SlotsOf(sp, r, c) ==
    IF r \in DOMAIN sp THEN {i \in DOMAIN sp[r] : sp[r][i] = c} ELSE {}

\* C21: after a client's LEAVE_ROOM for a room it was in, and after the
\* spawn release that ends remove_client, no slot of the affected room
\* names that client as occupant.
C21_SlotFreedOnDeparture ==
    [][/\ \A c \in ClientIds, r \in RoomIds :
            (LeaveRoom(c, r) /\ r \in DOMAIN game_rooms /\ c \in Members(r))
            => SlotsOf(room_spawn_positions', r, c) = {}
       /\ \A c \in ClientIds :
            ReleaseSpawnPositions(c)
            => \A r \in rooms_affected[c] :
                  SlotsOf(room_spawn_positions', r, c) = {}
      ]_vars

\* C22: a datagram whose client_id is missing or names no registered
\* session is forwarded to no one and changes nothing in the client map.
C22_UnknownSenderDropped ==
    [][\A t \in UdpTypes, c \in ClientIds \cup {NoId}, tg \in ClientIds \cup {NoId},
         r \in RoomIds \cup {NoId}, d \in DataVals, a \in Addrs :
          (UdpMessage(t, c, tg, r, d, a) /\ ~Registered(c))
          => sent' = <<>> /\ clients' = clients]_vars

\* p is registered and has a datagram address once the datagram is handled
Reachable(p) ==
    p \in DOMAIN clients' /\ "udp_ip" \in DOMAIN clients'[p]

\* the clients the claim lets a datagram be forwarded to
UdpAudience(c, tg, r) ==
    IF c = NoId THEN {}
    ELSE IF tg # NoId THEN {p \in {tg} : Reachable(p)}
    ELSE IF r # NoId /\ r \in DOMAIN game_rooms
    THEN {p \in Members(r) \ {c} : Reachable(p)}
    ELSE {}

C24_ForwardedUnmodified ==
    [][\A t \in UdpTypes, c \in ClientIds \cup {NoId}, tg \in ClientIds \cup {NoId},
         r \in RoomIds \cup {NoId}, d \in DataVals, a \in Addrs :
          UdpMessage(t, c, tg, r, d, a)
          => \A i \in 1..Len(sent') :
                /\ sent'[i].type = t
                /\ sent'[i].data = d
                /\ sent'[i].from = c]_vars

\* C25: a chunk that cannot be decoded as a structured message (invalid
\* JSON, invalid UTF-8, JSON that is not an object) is dropped: the sender
\* stays registered and in its rooms and its worker keeps receiving.
C25_MalformedChunkDropped ==
    [][\A c \in ClientIds, k \in ChunkKinds :
          (MalformedChunk(c, k) /\ Registered(c))
          => /\ c \in DOMAIN clients'
             /\ conn'[c] = "running"
             /\ game_rooms' = game_rooms]_vars

\* C26: a well-formed message whose type is not a catalogued one (any
\* other string, JOIN_ROOM included, or none) only refreshes the sender's
\* last-seen: nothing is sent, no room, spawn slot or registration changes,
\* and the sender's worker goes on.
C26_UnknownTypeIgnored ==
    [][\A c \in ClientIds :
          (UnknownType(c) \/ \E r \in RoomIds : JoinRoom(c, r))
          => /\ sent' = <<>>
             /\ DOMAIN clients' = DOMAIN clients
             /\ conn' = conn
             /\ game_rooms' = game_rooms
             /\ room_spawn_positions' = room_spawn_positions]_vars

\* C27: once a worker's receive loop has ended, for whatever reason,
\* remove_client runs to its end, and when it has, the client is in no
\* client map entry, in no room's member list, and hosts no room.
C27_TeardownGuaranteed ==
    \A c \in ClientIds :
        /\ [](conn[c] = "done" => Evicted(c))
        /\ (conn[c] \in {"rm_rooms", "rm_release"}) ~> (conn[c] = "done")

\* remove_client has just finished for a client while a room hosted by
\* another client is still there
C27_Witness ==
    \E c \in ClientIds :
        /\ op = <<"RELEASE", c, NoId>>
        /\ conn[c] = "done"
        /\ Evicted(c)
        /\ \E r \in DOMAIN game_rooms : game_rooms[r].max_players = 2

\* C28: no thread ever waits for a lock it holds itself (or for one held by
\* a thread that waits for it): no reachable state has clients_lock held by
\* a thread that is blocked for ever.
C28_NoThreadBlocksForEver ==
    clients_lock \notin {"reaper", "admin"}

\* C29: no step sends a message (TCP or datagram) while its thread holds
\* clients_lock or rooms_lock.
C29_NoSendUnderLock ==
    (op # <<>> /\ sent # <<>>) => LocksHeldAtSend(op[1]) = {}

\* C30: the room map and the spawn assignments are read and written only
\* by a thread that holds rooms_lock, in GET_ROOM_PLAYERS and in
\* release_spawn_position as everywhere else.
C30_RoomStateUnderRoomsLock ==
    [][\A c \in ClientIds :
          /\ (ReleaseSpawnPositions(c) /\ rooms_affected[c] # {})
             => "rooms_lock" \in RoomStateLocks(op'[1])
          /\ (\E r \in RoomIds : GetRoomPlayers(c, r))
             => "rooms_lock" \in RoomStateLocks(op'[1])]_vars

\* C31: kick_player(id) terminates: for a registered id it sends KICKED,
\* removes the session and returns (its lock released); for an unknown id
\* it changes nothing.
C31_KickTerminates ==
    [][\A c \in ClientIds :
          KickPlayer(c)
          => IF Registered(c)
             THEN /\ SentTo(sent', c, "KICKED") # {}
                  /\ c \notin DOMAIN clients'
                  /\ clients_lock' = "free"
             ELSE /\ sent' = <<>>
                  /\ UNCHANGED <<clients, game_rooms, room_spawn_positions,
                                 clients_lock>>]_vars

\* C33: in every reachable state and every room, a client occupies at most
\* one spawn slot of that room.
C33_OneSlotPerClient ==
    \A r \in DOMAIN room_spawn_positions : \A c \in ClientIds :
        Cardinality(SlotsOf(room_spawn_positions, r, c)) <= 1

\* C34: in every reachable state every room's host is in the room's member
\* list, and no member list holds a client twice.
C34_HostIsMemberNoDuplicates ==
    \A r \in DOMAIN game_rooms :
        /\ game_rooms[r].host_id \in Members(r)
        /\ \A i, j \in 1..Len(game_rooms[r].players) :
              game_rooms[r].players[i] = game_rooms[r].players[j] => i = j

\* a JOIN_GAME by a client that was already in the room (its host) has just
\* been accepted
C34_Witness ==
    /\ op # <<>> /\ op[1] = "JOIN_GAME"
    /\ op[3] \in DOMAIN game_rooms
    /\ game_rooms[op[3]].host_id = op[2]
    /\ game_rooms[op[3]].players = <<op[2]>>
    /\ SentTo(sent, op[2], "JOINED_GAME") # {}

\* C38: a HOST_GAME that creates a room leaves every room that existed
\* before it as it was: still there, with the same host, name, member list
\* and max_players.
C38_HostGameFrame ==
    [][\A c \in ClientIds, n \in Names, m \in MaxPlayersArgs :
          (HostGame(c, n, m) /\ ~Hosts(c))
          => \A r \in DOMAIN game_rooms :
                r \in DOMAIN game_rooms' /\ game_rooms'[r] = game_rooms[r]]_vars

\* C39: a RELAY_MESSAGE carrying the id of a room that the sender is not a
\* member of is delivered to no member of that room.
C39_OnlyMembersRelay ==
    [][\A c \in ClientIds, r \in RoomIds, msg \in Messages :
          (/\ RelayMessage(c, r, NoId, msg)
           /\ r \in DOMAIN game_rooms
           /\ c \notin Members(r))
          => \A i \in 1..Len(sent') : sent'[i].to \notin Members(r)]_vars

\* C35: the reaper goes for a session only if, at the moment of its check,
\* the time since that session's last-seen exceeds 60, and it removes no
\* other session; a message from a client sets its last-seen to the
\* current time, so a client heard from within the last 60 is left alone.
C35_ReaperOnlyStale ==
    [][/\ ReaperCycle
            => /\ clients_lock' = "reaper"
                    => \E c \in DOMAIN clients :
                          now - clients[c].last_heartbeat > 60
               /\ clients' = clients
       /\ \A c \in ClientIds :
            (Heartbeat(c) /\ Registered(c))
            => clients'[c].last_heartbeat = now
      ]_vars

\* the reaper has just checked a session last heard from exactly 60 ago,
\* and left it alone
C35_Witness ==
    /\ op = <<"REAPER", NoId, NoId>>
    /\ clients_lock = "free"
    /\ \E c \in DOMAIN clients : now - clients[c].last_heartbeat = 60

\* the receivers of msgs, in send order
Receivers(msgs) == [i \in 1..Len(msgs) |-> msgs[i].to]

ReachesAllBut(msgs, audience, broken) ==
    /\ {msgs[i].to : i \in 1..Len(msgs)} = audience \ broken
    /\ Len(msgs) = Cardinality(audience \ broken)
    /\ conn' = conn
    /\ DOMAIN clients' = DOMAIN clients
    /\ game_rooms' = game_rooms

C40_SenderNotForgeable ==
    [][\A c \in ClientIds, k \in ClientIds \cup {NoId}, r \in RoomIds \cup {NoId},
         t \in ClientIds \cup {NoId} :
          RelayMessageFrom(c, k, r, t, "hello")
          => \A i \in 1..Len(sent') :
                sent'[i].type = "RELAY" /\ sent'[i].from = c]_vars

\* a RELAY addressed by target_id has just been delivered to another
\* client, carrying the sender's connection identity
C40_Witness ==
    /\ op # <<>> /\ op[1] = "RELAY_MESSAGE" /\ op[3] = NoId
    /\ Len(sent) = 1 /\ sent[1].type = "RELAY"
    /\ sent[1].from = op[2] /\ sent[1].to # op[2]

\* ---- C36
\* the non-empty segments of s that a delimiter terminates, in order, found
\* from the right: the segment before the last delimiter, after those of
\* everything up to the delimiter before it
RECURSIVE Segments(_)
Segments(s) ==
    LET nl == {i \in 1..Len(s) : s[i] = NEWLINE}
    IN  IF nl = {} THEN <<>>
        ELSE LET p == CHOOSE i \in nl : \A j \in nl : j <= i
                 before == {i \in nl : i < p} \cup {0}
                 q == CHOOSE i \in before : \A j \in before : j <= i
                 seg == SubSeq(s, q + 1, p - 1)
             IN  Segments(SubSeq(s, 1, q))
                     \o (IF seg = <<>> THEN <<>> ELSE <<seg>>)

\* what follows the last delimiter of s
Unterminated(s) ==
    LET ends == {i \in 1..Len(s) : s[i] = NEWLINE} \cup {0}
        p == CHOOSE i \in ends : \A j \in ends : j <= i
    IN  SubSeq(s, p + 1, Len(s))

\* C36: framing does not depend on how the bytes arrive.  After any number
\* of recv calls of any sizes, the messages dispatched so far are exactly
\* the non-empty newline-terminated segments of the bytes received so far,
\* in stream order, and the buffer holds exactly the unterminated rest:
\* both are functions of the received prefix alone, so every cut of a stream
\* into chunks dispatches the same sequence, and a trailing segment is
\* dispatched only once its newline has arrived.
C36_FramingIndependentOfChunks ==
    LET prefix == SubSeq(stream, 1, received)
    IN  /\ dispatched = Segments(prefix)
        /\ buffer = Unterminated(prefix)

\* a message has been dispatched, the start of the next one is held in the
\* buffer, and its delimiter is the next byte to arrive
C36_Witness ==
    /\ dispatched # <<>>
    /\ buffer # <<>>
    /\ received < Len(stream)
    /\ stream[received + 1] = NEWLINE

====
